---- MODULE Spec2Model ----
(***************************************************************************)
(* CognitoCoreMk1: the tool executors (agent.py _execute_tool, tools.py    *)
(* ToolManager.execute_tool), the shell tool SystemTools.run_command and   *)
(* the dialogue loop CognitoCoreAgent.process_input.                       *)
(*                                                                         *)
(* Text that the code inspects (command strings) is a sequence of          *)
(* one-character strings, so that split() and lower() are computed.        *)
(***************************************************************************)
EXTENDS Integers, Sequences, FiniteSets, TLC

(***************************************************************************)
(* Bounds of the model.                                                    *)
(***************************************************************************)
\* tool round-trips the model backend may ask for within one utterance
MaxRounds == 2
\* a new utterance is submitted only while the history is shorter than this
MaxHistoryLen == 5
\* the same, for conversations in which the model requests no tool
MaxChatHistoryLen == 11
\* tool round-trips of one utterance under the always-calling model stub
MaxStubRounds == 9
\* threads of one kind that run while the variable of main() refers to a newer one
MaxStrayThreads == 1
\* messages of the conversation shown by the UI
MaxMessages == 3
\* Thread objects start_listening_thread creates
MaxThreads == 2
\* utterances the recogniser recognises
MaxUtterances == 2

(***************************************************************************)
(* Strings of the shell tool.                                              *)
(***************************************************************************)
Whitespace == {" "}

\* str.lower() on one character of the alphabet used by Commands
lower_char(c) == CASE c = "L" -> "l" [] c = "S" -> "s" [] OTHER -> c

\* str.lower()
lower(s) == [i \in 1..Len(s) |-> lower_char(s[i])]

RECURSIVE split_acc(_, _, _)
split_acc(s, cur, acc) ==
    IF s = <<>>
    THEN IF cur = <<>> THEN acc ELSE Append(acc, cur)
    ELSE IF Head(s) \in Whitespace
         THEN split_acc(Tail(s), <<>>, IF cur = <<>> THEN acc ELSE Append(acc, cur))
         ELSE split_acc(Tail(s), Append(cur, Head(s)), acc)

\* faulty variant: str.split(" "), which yields one empty word for an empty string
split_on_space(s) == IF split_acc(s, <<>>, <<>>) = <<>> THEN << <<>> >> ELSE split_acc(s, <<>>, <<>>)

\* str.split(): the maximal runs of non-whitespace characters
split(s) == split_acc(s, <<>>, <<>>)

RECURSIVE segments_acc(_, _, _)
segments_acc(s, cur, acc) ==
    IF s = <<>>
    THEN Append(acc, cur)
    ELSE IF Head(s) = ";"
         THEN segments_acc(Tail(s), <<>>, Append(acc, cur))
         ELSE segments_acc(Tail(s), Append(cur, Head(s)), acc)

\* What `sh -c command` (Popen with shell=True) runs: the first word of every
\* ';'-separated simple command of the command line.
ShellPrograms(command) ==
    LET segs == segments_acc(command, <<>>, <<>>)
    IN  { split(segs[i])[1] : i \in { j \in 1..Len(segs) : split(segs[j]) # <<>> } }

\* tools.py:161-165
safe_commands ==
    { <<"l","s">>,
      <<"d","i","r">>,
      <<"e","c","h","o">>,
      <<"d","a","t","e">>,
      <<"t","i","m","e">>,
      <<"w","h","o","a","m","i">>,
      <<"p","w","d">>,
      <<"c","d">>,
      <<"h","o","s","t","n","a","m","e">>,
      <<"p","i","n","g">>,
      <<"p","y","t","h","o","n">>,
      <<"p","y","t","h","o","n","3">>,
      <<"p","i","p">>,
      <<"p","i","p","3">>,
      <<"t","y","p","e">>,
      <<"c","a","t">>,
      <<"m","o","r","e">> }

\* Command strings a caller (the model backend) may supply:
\* "", " ", "ls", "LS", "rm -rf /", "ls ; rm", "ls;rm"
Commands ==
    { <<>>,
      <<" ">>,
      <<"l","s">>,
      <<"L","S">>,
      <<"r","m"," ","-","r","f"," ","/">>,
      <<"l","s"," ",";"," ","r","m">>,
      <<"l","s",";","r","m">> }

\* What the operating system does with a Popen request: the child exits with
\* code 0 / non-zero within 30 s, or it is still running then, or the spawn fails.
ProcBehaviours == {"exit0", "exit_nonzero", "hang", "popen_error"}

(***************************************************************************)
(* SystemTools.run_command                                                 *)
(***************************************************************************)
NoChild == [started |-> FALSE, command |-> <<>>, alive |-> FALSE]

\* faulty variant: no allow-list check
denied_in_safe_mode_unchecked(command_base, safe_mode) == FALSE

\* tools.py:169  `safe_mode and command_base not in safe_commands`
denied_in_safe_mode(command_base, safe_mode) ==
    safe_mode /\ command_base \notin safe_commands

\* The result dict (its "status" and "code" keys; code "none" = key absent),
\* and what happened to the child: spawned = Popen started a process,
\* alive = that process is still running when run_command returns.
run_command(command, safe_mode, env) ==
    IF split(command) = <<>>
    THEN \* command.split()[0] raises IndexError, caught at tools.py:202
         [status |-> "error", code |-> "-1", error |-> "exception",
          spawned |-> FALSE, alive |-> FALSE]
    ELSE LET command_base == lower(split(command)[1])
         IN  IF denied_in_safe_mode(command_base, safe_mode)
             THEN [status |-> "denied", code |-> "none", error |-> "Security restriction",
                   spawned |-> FALSE, alive |-> FALSE]
             ELSE CASE env = "exit0" ->
                         [status |-> "success", code |-> "0", error |-> "stderr",
                          spawned |-> TRUE, alive |-> FALSE]
                    [] env = "exit_nonzero" ->
                         [status |-> "error", code |-> "nonzero", error |-> "stderr",
                          spawned |-> TRUE, alive |-> FALSE]
                    [] env = "hang" ->
                         \* communicate(timeout=30) raises TimeoutExpired; the handler
                         \* at tools.py:194 returns without kill() or wait()
                         [status |-> "timeout", code |-> "-1",
                          error |-> "Command execution timed out",
                          spawned |-> TRUE, alive |-> TRUE]
                    [] env = "popen_error" ->
                         \* Popen raises OSError, caught at tools.py:202
                         [status |-> "error", code |-> "-1", error |-> "exception",
                          spawned |-> FALSE, alive |-> FALSE]

\* the child process of the latest Popen, after a run_command call
ChildAfter(child_now, command, r) ==
    IF r.spawned
    THEN [started |-> TRUE, command |-> command, alive |-> r.alive]
    ELSE child_now

(***************************************************************************)
(* Argument mappings and tool bodies                                       *)
(***************************************************************************)
EmptyMapping == [k \in {} |-> ""]

\* dict.get(key, default)
Get(m, key, default) == IF key \in DOMAIN m THEN m[key] ELSE default

\* What a tool body does: the network/SMTP/OS side of a tool in tools.py answers
\* or fails ("ok", "fail": both end in a returned value, tools.py catches its own
\* exceptions); a handler whose body is not in tools.py may also raise.
BodyBehaviours == {"ok", "fail", "raise_type_error", "raise_exception"}

Envs == [proc : ProcBehaviours, body : {"ok"}] \cup [proc : {"exit0"}, body : BodyBehaviours]

\* argument mappings for run_command: with and without command and safe_mode
RunCommandArgs ==
    { [command |-> c] : c \in Commands }
    \cup { [command |-> c, safe_mode |-> b] : c \in Commands, b \in BOOLEAN }
    \cup { EmptyMapping, [safe_mode |-> FALSE] }

(***************************************************************************)
(* WebTools, CommunicationTools                                            *)
(***************************************************************************)
\* tools.py:37-90. The request of line 60 is issued for every query, the empty
\* one too; the result is a list (of results, or of one error entry).
search_web(query, env) == [effect |-> "http"]

\* tools.py:93-139. requests.get refuses a URL without a scheme (the empty
\* string) before anything is sent; the result is a string either way.
fetch_webpage_content(url, env) == [effect |-> IF url = "" THEN "none" ELSE "http"]

\* tools.py:288-341. env "ok": the configuration is complete and the SMTP server
\* accepts the message. A message without a recipient is refused by
\* send_message; an empty subject or body is not looked at.
send_email(recipient, subject, body, env) ==
    IF env = "ok" /\ recipient # ""
    THEN [status |-> "success", effect |-> "email"]
    ELSE [status |-> "error", effect |-> "none"]

\* tools.py:344-386. env "ok": the configuration is complete and Twilio accepts
\* the message.
send_whatsapp(recipient, message, env) ==
    IF env = "ok"
    THEN [status |-> "success", effect |-> "whatsapp"]
    ELSE [status |-> "error", effect |-> "none"]

(***************************************************************************)
(* ToolManager.execute_tool                                                *)
(***************************************************************************)
ManagerTools ==
    {"web_search", "fetch_webpage", "run_command", "system_info", "send_email", "send_whatsapp"}

\* the tool names of ManagerTools whose branch reads params (params.get)
ReadsParams == ManagerTools \ {"system_info"}

\* the parameters without a default in the signatures of tools.py:37, 93, 146,
\* 212, 288, 344
ManagerRequired(tool_name) ==
    CASE tool_name = "web_search"    -> {"query"}
      [] tool_name = "fetch_webpage" -> {"url"}
      [] tool_name = "run_command"   -> {"command"}
      [] tool_name = "send_email"    -> {"recipient", "subject", "body"}
      [] tool_name = "send_whatsapp" -> {"recipient", "message"}
      [] OTHER -> {}

\* faulty variant: no except clause, the exception leaves execute_tool
execute_tool_reraise(tool_name) ==
    [shape |-> "none", status |-> "absent", fault |-> "exception", raised |-> TRUE,
     spawned |-> FALSE, alive |-> FALSE, handler |-> "none", named |-> "",
     effect |-> "none"]

\* tools.py:451-457  except Exception
execute_tool_except(tool_name) ==
    [shape |-> "caught", status |-> "error", fault |-> "exception", raised |-> FALSE,
     spawned |-> FALSE, alive |-> FALSE, handler |-> "none", named |-> tool_name,
     effect |-> "none"]

\* tools.py:445-449  the else branch
execute_tool_unknown(tool_name) ==
    [shape |-> "unknown_tool", status |-> "error", fault |-> "unknown_tool",
     raised |-> FALSE, spawned |-> FALSE, alive |-> FALSE, handler |-> "none",
     named |-> tool_name, effect |-> "none"]

\* tools.py:399-457. params = [is_mapping, m]: a value without .get (None, a list)
\* has is_mapping = FALSE. The returned dict: shape names its keys, status is
\* the value of its "status" key ("absent" when it has none), named the tool
\* name its message holds; handler is the tool function that was called and
\* effect what that function did to the outside world.
execute_tool(tool_name, params, env) ==
    IF tool_name \in ReadsParams /\ ~params.is_mapping
    THEN execute_tool_except(tool_name)
    ELSE CASE tool_name = "web_search" ->
                LET r == search_web(Get(params.m, "query", ""), env.body)
                IN  [shape |-> "results", status |-> "absent", fault |-> "none",
                     raised |-> FALSE, spawned |-> FALSE, alive |-> FALSE,
                     handler |-> "search_web", named |-> "", effect |-> r.effect]
           [] tool_name = "fetch_webpage" ->
                LET r == fetch_webpage_content(Get(params.m, "url", ""), env.body)
                IN  [shape |-> "content", status |-> "absent", fault |-> "none",
                     raised |-> FALSE, spawned |-> FALSE, alive |-> FALSE,
                     handler |-> "fetch_webpage_content", named |-> "",
                     effect |-> r.effect]
           [] tool_name = "run_command" ->
                LET command   == Get(params.m, "command", <<>>)
                    safe_mode == Get(params.m, "safe_mode", TRUE)
                    r         == run_command(command, safe_mode, env.proc)
                IN  [shape |-> "run_command", status |-> r.status, fault |-> "none",
                     raised |-> FALSE, spawned |-> r.spawned, alive |-> r.alive,
                     handler |-> "run_command", named |-> "",
                     effect |-> IF r.spawned THEN "process" ELSE "none"]
           [] tool_name = "system_info" ->
                [shape |-> "info", status |-> "absent", fault |-> "none",
                 raised |-> FALSE, spawned |-> FALSE, alive |-> FALSE,
                 handler |-> "get_system_info", named |-> "", effect |-> "none"]
           [] tool_name = "send_email" ->
                LET r == send_email(Get(params.m, "recipient", ""),
                                    Get(params.m, "subject", ""),
                                    Get(params.m, "body", ""), env.body)
                IN  [shape |-> "message", status |-> r.status, fault |-> "none",
                     raised |-> FALSE, spawned |-> FALSE, alive |-> FALSE,
                     handler |-> "send_email", named |-> "", effect |-> r.effect]
           [] tool_name = "send_whatsapp" ->
                LET r == send_whatsapp(Get(params.m, "recipient", ""),
                                       Get(params.m, "message", ""), env.body)
                IN  [shape |-> "message", status |-> r.status, fault |-> "none",
                     raised |-> FALSE, spawned |-> FALSE, alive |-> FALSE,
                     handler |-> "send_whatsapp", named |-> "", effect |-> r.effect]
           [] OTHER -> execute_tool_unknown(tool_name)

\* argument mappings of the other tools: complete, and with a parameter left out
ManagerArgs(tool_name) ==
    CASE tool_name = "web_search"    -> { [query |-> "v"] }
      [] tool_name = "fetch_webpage" -> { [url |-> "v"] }
      [] tool_name = "send_email"    ->
            { [recipient |-> "v", subject |-> "v", body |-> "v"],
              [recipient |-> "v", subject |-> "v"],
              [subject |-> "v", body |-> "v"] }
      [] tool_name = "send_whatsapp" ->
            { [recipient |-> "v", message |-> "v"], [recipient |-> "v"] }
      [] OTHER -> {}

\* calls of ToolManager.execute_tool
ManagerCalls ==
    { [tool_name |-> "run_command", is_mapping |-> TRUE, args |-> a] : a \in RunCommandArgs }
    \cup { [tool_name |-> n, is_mapping |-> b, args |-> EmptyMapping] :
             n \in ManagerTools \cup {"delete_files"}, b \in BOOLEAN }
    \cup UNION { { [tool_name |-> n, is_mapping |-> TRUE, args |-> a] : a \in ManagerArgs(n) } :
                   n \in ManagerTools }

(***************************************************************************)
(* CognitoCoreAgent._execute_tool                                          *)
(***************************************************************************)
\* agent.py:119-125. The map names tools.run_command and tools.send_email; tools.py
\* defines them as SystemTools.run_command and CommunicationTools.send_email.
TOOL_FUNCTION_MAP == {"browse_web", "run_command", "send_email", "check_system_status"}

\* agent.py:108-116: the names of the function declarations, in their order
AVAILABLE_TOOLS == <<"browse_web", "run_command", "send_email", "check_system_status">>

\* agent.py:45-105: the "required" list of each function declaration
DeclaredRequired(tool_name) ==
    CASE tool_name = "browse_web" -> {"query_or_url"}
      [] tool_name = "run_command" -> {"command"}
      [] tool_name = "send_email" -> {"to_address", "subject", "body"}
      [] OTHER -> {}

\* the two module-level objects after agent.py has been imported
InitRegistry == [declared |-> AVAILABLE_TOOLS, handlers |-> TOOL_FUNCTION_MAP]

\* faulty variant: a lookup that inserts a default entry for a missing key
registry_after_setdefault(reg, tool_name) ==
    [reg EXCEPT !.handlers = @ \cup {tool_name}]

\* agent.py:195-199: `tool_name not in TOOL_FUNCTION_MAP` and
\* `TOOL_FUNCTION_MAP[tool_name]` read the map and assign nothing to it
registry_after_lookup(reg, tool_name) == reg

\* tools.py:146  run_command(command, safe_mode=True)
run_command_params == [required |-> {"command"}, accepted |-> {"command", "safe_mode"}]

\* tools.py:288  send_email(recipient, subject, body, html_body=None)
send_email_params ==
    [required |-> {"recipient", "subject", "body"},
     accepted |-> {"recipient", "subject", "body", "html_body"}]

\* agent.py:45-58: tools.py has no browse_web; its declared parameters
browse_web_params == [required |-> {"query_or_url"}, accepted |-> {"query_or_url"}]

\* agent.py:101-105: tools.py has no check_system_status; declared without parameters
check_system_status_params == [required |-> {}, accepted |-> {}]

HandlerParams(tool_name) ==
    CASE tool_name = "run_command" -> run_command_params
      [] tool_name = "send_email" -> send_email_params
      [] tool_name = "browse_web" -> browse_web_params
      [] OTHER -> check_system_status_params

\* tool_function(**tool_args) binds: every required parameter is given and no
\* unknown keyword is; otherwise Python raises TypeError before the body runs
Binds(tool_name, tool_args) ==
    /\ HandlerParams(tool_name).required \subseteq DOMAIN tool_args
    /\ DOMAIN tool_args \subseteq HandlerParams(tool_name).accepted

\* faulty variant: an except clause that lets the exception through
_execute_tool_reraise(tool_name, fault) ==
    [kind |-> "none", inner |-> "none", status |-> "absent", fault |-> fault,
     raised |-> TRUE, spawned |-> FALSE, alive |-> FALSE, handler |-> "none",
     named |-> "", effect |-> "none"]

\* agent.py:209-214  except TypeError / except Exception. The handler was called;
\* a TypeError of the call itself is raised before its body runs.
_execute_tool_except(tool_name, fault) ==
    [kind |-> IF fault = "type_error" THEN "invalid_arguments" ELSE "failed_to_execute",
     inner |-> "none", status |-> "absent", fault |-> fault, raised |-> FALSE,
     spawned |-> FALSE, alive |-> FALSE, handler |-> tool_name,
     named |-> tool_name, effect |-> "none"]

\* faulty variant: the map is indexed without the membership test (KeyError)
_execute_tool_unknown_lookup(tool_name) ==
    [kind |-> "none", inner |-> "none", status |-> "absent", fault |-> "key_error",
     raised |-> TRUE, spawned |-> FALSE, alive |-> FALSE, handler |-> "none",
     named |-> "", effect |-> "none"]

\* agent.py:195-197  `if tool_name not in TOOL_FUNCTION_MAP`
_execute_tool_unknown(tool_name) ==
    [kind |-> "not_available", inner |-> "none", status |-> "absent",
     fault |-> "unknown_tool", raised |-> FALSE, spawned |-> FALSE, alive |-> FALSE,
     handler |-> "none", named |-> tool_name, effect |-> "none"]

\* agent.py:183-214. The returned dict is {"result": text}, it has no "status"
\* key: kind names the text (str(result) of the tool, or one of the three error
\* sentences), inner is the status inside the stringified tool result, named
\* the tool name the error sentence holds; handler is the function of
\* TOOL_FUNCTION_MAP that was called, effect what it did to the outside world.
_execute_tool(tool_name, tool_args, env) ==
    IF tool_name \notin TOOL_FUNCTION_MAP
    THEN _execute_tool_unknown(tool_name)
    ELSE IF ~Binds(tool_name, tool_args)
    THEN _execute_tool_except(tool_name, "type_error")
    ELSE CASE tool_name = "run_command" ->
                LET r == run_command(tool_args["command"],
                                     Get(tool_args, "safe_mode", TRUE), env.proc)
                IN  [kind |-> "str_result", inner |-> r.status, status |-> "absent",
                     fault |-> "none", raised |-> FALSE, spawned |-> r.spawned,
                     alive |-> r.alive, handler |-> tool_name, named |-> "",
                     effect |-> IF r.spawned THEN "process" ELSE "none"]
           [] tool_name = "send_email" ->
                LET r == send_email(tool_args["recipient"], tool_args["subject"],
                                    tool_args["body"], env.body)
                IN  [kind |-> "str_result", inner |-> r.status, status |-> "absent",
                     fault |-> "none", raised |-> FALSE, spawned |-> FALSE,
                     alive |-> FALSE, handler |-> tool_name, named |-> "",
                     effect |-> r.effect]
           [] OTHER ->
                \* browse_web, check_system_status: the body is not in tools.py
                CASE env.body = "raise_type_error" -> _execute_tool_except(tool_name, "type_error")
                  [] env.body = "raise_exception"  -> _execute_tool_except(tool_name, "exception")
                  [] OTHER ->
                       [kind |-> "str_result", fault |-> "none", status |-> "absent",
                        inner |-> IF env.body = "ok" THEN "success" ELSE "error",
                        raised |-> FALSE, spawned |-> FALSE, alive |-> FALSE,
                        handler |-> tool_name, named |-> "",
                        effect |-> IF tool_name = "browse_web" THEN "http" ELSE "none"]

\* tool calls the model backend may request (function_call.name, function_call.args)
AgentCalls ==
    { [tool_name |-> "run_command", is_mapping |-> TRUE, args |-> a] : a \in RunCommandArgs }
    \cup { [tool_name |-> "send_email", is_mapping |-> TRUE, args |-> a] :
             a \in { [to_address |-> "v", subject |-> "v", body |-> "v"],
                     [recipient |-> "v", subject |-> "v", body |-> "v"],
                     [subject |-> "v"] } }
    \cup { [tool_name |-> "browse_web", is_mapping |-> TRUE, args |-> a] :
             a \in { [query_or_url |-> "v"], EmptyMapping } }
    \cup { [tool_name |-> n, is_mapping |-> TRUE, args |-> EmptyMapping] :
             n \in {"check_system_status", "delete_files"} }

\* tool calls the model backend requests inside process_input
ModelCalls ==
    { c \in AgentCalls \ {[tool_name |-> "check_system_status", is_mapping |-> TRUE,
                           args |-> EmptyMapping]} :
        \/ c.tool_name # "run_command"
        \/ c.args \in { [command |-> <<"r","m"," ","-","r","f"," ","/">>],
                        [command |-> <<"r","m"," ","-","r","f"," ","/">>, safe_mode |-> FALSE],
                        EmptyMapping } }

(***************************************************************************)
(* CognitoCoreAgent.process_input                                          *)
(***************************************************************************)
\* user utterances, final answers of the model, partial answers of a stopped reply
Utterances == {"u1", "u2"}
ModelTexts == {"a1"}
PartialTexts == {"p1"}

\* agent.py:281, 296/298, 301
SafetyMsg == "I cannot process that request due to safety restrictions."
InterruptedMsg == "My response was interrupted. Could you please rephrase?"
InternalErrorMsg == "I encountered an internal error. Please try again later."

\* A turn of chat.history (a Content with one part): kind is the part's type,
\* text its text (for a function_response: the text of the executor's result,
\* with status the status that text holds), name the tool.
TextContent(role, text) ==
    [role |-> role, kind |-> "text", text |-> text, name |-> "", status |-> "none"]

\* agent.py:249-251  tool_name = function_call.name, tool_args = dict(function_call.args)
tool_call_of(fc) == [tool_name |-> fc.tool_name, args |-> fc.args]

\* faulty variant: the response part is built without the result
function_response_empty(tool_name, api_response) ==
    [role |-> "user", kind |-> "function_response", text |-> "", name |-> tool_name,
     status |-> "none"]

\* agent.py:259-262  Part(function_response=FunctionResponse(name=tool_name,
\* response=api_response)), api_response being the dict _execute_tool returned
function_response(tool_name, api_response) ==
    [role |-> "user", kind |-> "function_response", text |-> api_response.kind,
     name |-> tool_name, status |-> api_response.inner]

\* faulty variant: only the latest two turns are handed to the chat
to_contents_latest(history) ==
    [i \in 1..(IF Len(history) > 2 THEN 2 ELSE Len(history)) |->
        LET k == IF Len(history) > 2 THEN Len(history) - 2 + i ELSE i
        IN  TextContent(history[k].role, history[k].text)]

\* start_chat(history=...): the dicts {'role', 'parts': [{'text'}]} become Contents
to_contents(history) ==
    [i \in 1..Len(history) |-> TextContent(history[i].role, history[i].text)]

\* part.text: the text of a text part, '' for a function_call or function_response part
part_text(part) == IF part.kind = "text" THEN part.text ELSE ""

\* agent.py:272-275
serializable_history(updated_history) ==
    [i \in 1..Len(updated_history) |->
        [role |-> updated_history[i].role, text |-> part_text(updated_history[i])]]

\* faulty variant: the user turn is not part of the returned history
return_final_without_user(locals, final_response_text) ==
    [text |-> final_response_text, raised |-> FALSE,
     history |-> locals.conversation_history
                   \o <<[role |-> "model", text |-> final_response_text]>>]

\* agent.py:266-277. locals: the local variables of process_input
\* (user_text, conversation_history, chat = chat.history)
return_final(locals, final_response_text) ==
    [text |-> final_response_text, raised |-> FALSE,
     history |-> serializable_history(locals.chat)]

\* agent.py:279-281  except BlockedPromptException
on_blocked(locals) ==
    [text |-> SafetyMsg, raised |-> FALSE, history |-> locals.conversation_history]

\* faulty variant: the partial text is returned, the history is left as it was
on_stop_unrecorded(locals, partial) ==
    IF partial.readable /\ partial.text # ""
    THEN [text |-> partial.text, raised |-> FALSE, history |-> locals.conversation_history]
    ELSE [text |-> InterruptedMsg, raised |-> FALSE, history |-> locals.conversation_history]

\* agent.py:282-298  except StopCandidateException. partial = [readable, text]:
\* e.response.text raises (readable = FALSE) or yields text
on_stop(locals, partial) ==
    IF partial.readable /\ partial.text # ""
    THEN [text |-> partial.text, raised |-> FALSE,
          history |-> locals.conversation_history
                        \o << [role |-> "user", text |-> locals.user_text],
                              [role |-> "model", text |-> partial.text] >>]
    ELSE [text |-> InterruptedMsg, raised |-> FALSE, history |-> locals.conversation_history]

\* faulty variant: the handler returns what the chat has recorded so far
on_error_partial_commit(locals) ==
    [text |-> InternalErrorMsg, raised |-> FALSE,
     history |-> serializable_history(locals.chat)]

\* agent.py:299-301  except Exception
on_error(locals) ==
    [text |-> InternalErrorMsg, raised |-> FALSE, history |-> locals.conversation_history]

\* what a stopped reply carries
Partials ==
    { [readable |-> TRUE, text |-> t] : t \in PartialTexts \cup {""} }
    \cup { [readable |-> FALSE, text |-> ""] }

(***************************************************************************)
(* State                                                                   *)
(***************************************************************************)
VARIABLES
    child,          \* the child process of the latest Popen of run_command
    registry,       \* the module-level AVAILABLE_TOOLS and TOOL_FUNCTION_MAP of agent.py
    call,           \* the latest direct call of a tool executor and what it returned:
                    \* status = the status of the tool's result, envelope = the
                    \* "status" key of the dict the executor returned
    history,        \* the history the caller keeps between process_input calls
    pc,             \* where process_input is: "idle" = not running
    locals,         \* user_text, conversation_history and chat.history of the running call
    pending,        \* the message being sent to the model backend
    function_call,  \* the function call of the model's reply
    rounds,         \* tool executions of the running call
    last,           \* what the latest finished process_input call returned
    stub,           \* the tool call a model stub answers every message with
    executed,       \* the tool call _execute_tool was invoked with for the latest
                    \* function call of the model (NoExecuted: not yet invoked)
    inv,            \* a tool invocation of ToolManager in progress, step by step
    loop,           \* the local variables of main() and what its threads have stored
    ui,             \* the JarvisUI object
    voice           \* the module globals of voice_io.py, its listening threads and
                    \* the threads that call its functions

execVars == <<child, call, registry>>
agentVars == <<history, pc, locals, pending, function_call, rounds, last, stub, executed>>
frontVars == <<inv, loop, ui, voice>>
vars ==
    <<child, call, registry, history, pc, locals, pending, function_call, rounds, last, stub, executed,
      inv, loop, ui, voice>>

NoCall ==
    [executor |-> "none", tool_name |-> "", is_mapping |-> TRUE, args |-> EmptyMapping,
     env |-> [proc |-> "exit0", body |-> "ok"], raised |-> FALSE, fault |-> "none",
     kind |-> "none", status |-> "absent", spawned |-> FALSE, alive |-> FALSE,
     envelope |-> "absent", handler |-> "none", named |-> "", effect |-> "none"]

NoLocals == [user_text |-> "", conversation_history |-> <<>>, chat |-> <<>>]
NoPending == TextContent("user", "")
NoFunctionCall == [tool_name |-> "", is_mapping |-> TRUE, args |-> EmptyMapping]
NoPartial == [readable |-> FALSE, text |-> ""]
NoExecuted == [tool_name |-> "", args |-> EmptyMapping]
NoLast ==
    [outcome |-> "none", text |-> "", raised |-> FALSE, rounds |-> 0,
     input |-> <<>>, user_text |-> "", partial |-> NoPartial,
     request |-> NoFunctionCall]

\* agent.py:311: history = []
InitAgent ==
    /\ history = <<>>
    /\ pc = "idle"
    /\ locals = NoLocals
    /\ pending = NoPending
    /\ function_call = NoFunctionCall
    /\ rounds = 0
    /\ last = NoLast
    /\ executed = NoExecuted

(***************************************************************************)
(* voice_io.py: the continuous listening thread and its control functions  *)
(***************************************************************************)
\* the threads that call start_listening_thread, stop_listening_thread and
\* get_last_input
Callers == {1, 2}

\* None as the value of listening_thread and of last_input: Thread objects and
\* recognized utterances are numbered from 1 in the order of their creation
None == 0

\* a thread is alive from start() until its target listen(False) returns
AliveStates == {"starting", "looping", "listening"}

\* Thread._started is set by start() and stays set
StartedStates == AliveStates \cup {"dead"}

\* what recognizer.listen and process_audio give for one phrase:
\* WaitTimeoutError or no text, a text, a text with STOP_PHRASE, a text with
\* SHUTDOWN_PHRASE, or an exception of the microphone
ListenOutcomes == {"silence", "utterance", "stop_phrase", "shutdown_phrase", "error"}

\* voice_io.py:92-94, no Thread object, no call in progress
InitVoice ==
    [is_listening_active |-> FALSE,
     listening_thread |-> None,
     last_input |-> None,
     threads |-> [t \in 1..MaxThreads |-> "unborn"],
     created |-> 0,
     heard |-> 0,
     returned |-> [u \in 1..MaxUtterances |-> 0],
     caller |-> [c \in Callers |-> [pc |-> "idle", result |-> None, raised |-> FALSE]]]

\* Thread.is_alive() of the object listening_thread refers to
thread_is_alive(v) ==
    v.listening_thread # None /\ v.threads[v.listening_thread] \in AliveStates

\* voice_io.py:334-336: the test of start_listening_thread; with a live thread
\* the call returns at once
start_check(v, c) ==
    IF thread_is_alive(v)
    THEN [v EXCEPT !.caller[c] = [pc |-> "idle", result |-> None, raised |-> FALSE]]
    ELSE [v EXCEPT !.caller[c] = [pc |-> "start_flag", result |-> None, raised |-> FALSE]]

\* voice_io.py:338
start_flag(v, c) ==
    [v EXCEPT !.is_listening_active = TRUE, !.caller[c].pc = "start_assign"]

\* voice_io.py:339  listening_thread = threading.Thread(target=listen, args=(False,))
start_assign(v, c) ==
    [v EXCEPT !.created = @ + 1,
              !.threads[v.created + 1] = "new",
              !.listening_thread = v.created + 1,
              !.caller[c].pc = "start_daemon"]

\* voice_io.py:340  listening_thread.daemon = True, on the object the global
\* refers to now; RuntimeError when that thread has been started
start_daemon(v, c) ==
    IF v.threads[v.listening_thread] \in StartedStates
    THEN [v EXCEPT !.caller[c] = [pc |-> "idle", result |-> None, raised |-> TRUE]]
    ELSE [v EXCEPT !.caller[c].pc = "start_start"]

\* voice_io.py:341-342  listening_thread.start(), on the object the global refers
\* to now; RuntimeError when that thread has been started
start_start(v, c) ==
    IF v.threads[v.listening_thread] \in StartedStates
    THEN [v EXCEPT !.caller[c] = [pc |-> "idle", result |-> None, raised |-> TRUE]]
    ELSE [v EXCEPT !.threads[v.listening_thread] = "starting",
                   !.caller[c] = [pc |-> "idle", result |-> None, raised |-> FALSE]]

\* voice_io.py:345-349
stop_listening_thread(v, c) ==
    [v EXCEPT !.is_listening_active = FALSE,
              !.caller[c] = [pc |-> "idle", result |-> None, raised |-> FALSE]]

\* voice_io.py:355  result = last_input
get_read(v, c) ==
    [v EXCEPT !.caller[c] = [pc |-> "get_clear", result |-> v.last_input, raised |-> FALSE]]

\* voice_io.py:356-357  last_input = None; return result
get_clear(v, c) ==
    LET result == v.caller[c].result
    IN  [v EXCEPT !.last_input = None,
                  !.returned = IF result = None THEN @
                               ELSE [@ EXCEPT ![result] = @ + 1],
                  !.caller[c].pc = "idle"]

\* voice_io.py:196-201: the thread adjusts for ambient noise and announces itself
thread_begins(v, t) == [v EXCEPT !.threads[t] = "looping"]

\* voice_io.py:204  while is_listening_active; false: voice_io.py:234-235
thread_tests(v, t) ==
    [v EXCEPT !.threads[t] = IF v.is_listening_active THEN "listening" ELSE "dead"]

\* voice_io.py:205-232 and 237-239: one phrase
thread_hears(v, t, outcome) ==
    CASE outcome = "silence" -> [v EXCEPT !.threads[t] = "looping"]
      [] outcome = "utterance" ->
            [v EXCEPT !.heard = @ + 1, !.last_input = v.heard + 1,
                      !.threads[t] = "looping"]
      [] outcome \in {"stop_phrase", "shutdown_phrase"} ->
            [v EXCEPT !.heard = @ + 1, !.last_input = v.heard + 1,
                      !.threads[t] = "dead"]
      [] OTHER -> [v EXCEPT !.threads[t] = "dead"]

\* no tool invocation is in progress
NoInvocation ==
    [phase |-> "idle", tool_name |-> "", is_mapping |-> TRUE, args |-> EmptyMapping,
     env |-> [proc |-> "exit0", body |-> "ok"], peer |-> "answers",
     on |-> "none", timeout |-> FALSE, status |-> "absent"]

\* main.py:480-551: the interface is active, the greeting is being spoken by the
\* first speak thread, nothing has been heard or answered. A thread variable is
\* None, or refers to a thread that is alive or has ended; stray counts the
\* threads of a kind that are alive and no longer referred to.
InitLoop ==
    [at |-> "events", running |-> TRUE, is_active |-> TRUE, start_listening |-> TRUE,
     thread |-> [speak |-> "alive", listen |-> "None", process |-> "None"],
     stray |-> [speak |-> 0, listen |-> 0, process |-> 0],
     last_input |-> <<>>, last_response |-> "None", processing |-> <<>>]

\* ui.py:31-89: no message, no button active, no callback attribute set;
\* clicked is the button of the latest click, called whether it ran a callback
InitUI ==
    [conversation |-> <<>>, active |-> {}, callbacks |-> "unset", clicked |-> "none",
     called |-> FALSE]

InitFront ==
    /\ inv = NoInvocation
    /\ loop = InitLoop
    /\ ui = InitUI
    /\ voice = InitVoice

Init ==
    /\ child = NoChild
    /\ registry = InitRegistry
    /\ call = NoCall
    /\ InitAgent
    /\ stub = NoFunctionCall
    /\ InitFront

\* the command string run_command receives from an arguments mapping
CommandOf(args) == Get(args, "command", <<>>)

\* a caller invokes ToolManager.execute_tool(tool_name, params)
CallToolManager ==
    /\ call.executor = "none"
    /\ \E c \in ManagerCalls, env \in Envs :
        LET r == execute_tool(c.tool_name, [is_mapping |-> c.is_mapping, m |-> c.args], env)
        IN  /\ call' = [executor |-> "manager", tool_name |-> c.tool_name,
                        is_mapping |-> c.is_mapping, args |-> c.args, env |-> env,
                        raised |-> r.raised, fault |-> r.fault, kind |-> r.shape,
                        status |-> r.status, spawned |-> r.spawned, alive |-> r.alive,
                        envelope |-> r.status, handler |-> r.handler,
                        named |-> r.named, effect |-> r.effect]
            /\ child' = ChildAfter(child, CommandOf(c.args), r)
            /\ UNCHANGED <<registry, agentVars, frontVars>>

\* a caller invokes CognitoCoreAgent._execute_tool(tool_name, tool_args)
CallAgentExecutor ==
    /\ call.executor = "none"
    /\ \E c \in AgentCalls, env \in Envs :
        LET r == _execute_tool(c.tool_name, c.args, env)
        IN  /\ call' = [executor |-> "agent", tool_name |-> c.tool_name,
                        is_mapping |-> TRUE, args |-> c.args, env |-> env,
                        raised |-> r.raised, fault |-> r.fault, kind |-> r.kind,
                        status |-> r.inner, spawned |-> r.spawned, alive |-> r.alive,
                        envelope |-> r.status, handler |-> r.handler,
                        named |-> r.named, effect |-> r.effect]
            /\ child' = ChildAfter(child, CommandOf(c.args), r)
            /\ registry' = registry_after_lookup(registry, c.tool_name)
            /\ UNCHANGED <<agentVars, frontVars>>

\* a child process that outlived its run_command call ends by itself
ChildExits ==
    /\ child.alive
    /\ child' = [child EXCEPT !.alive = FALSE]
    /\ UNCHANGED <<call, registry, agentVars, frontVars>>

\* the caller has taken the returned value; the executor is ready for the next call
ExecutorReturned ==
    /\ call.executor # "none"
    /\ call' = NoCall
    /\ UNCHANGED <<child, registry, agentVars, frontVars>>

NextExec == CallToolManager \/ CallAgentExecutor \/ ExecutorReturned \/ ChildExits

\* the tool executors called directly
SpecExec == Init /\ [][NextExec]_vars

(***************************************************************************)
(* process_input, step by step (agent.py:216-301), called as the loop of   *)
(* agent.py:311-321 does: history = updated_history after every call.      *)
(***************************************************************************)
\* process_input returns r = [text, history, raised] to its caller; request is
\* the function call held by the reply it returns on (NoFunctionCall: none)
ReturnOn(outcome, r, partial, request) ==
    /\ pc' = IF r.raised THEN "crashed" ELSE "idle"
    /\ history' = IF r.raised THEN history ELSE r.history
    /\ last' = [outcome |-> outcome, text |-> r.text, raised |-> r.raised,
                rounds |-> rounds, input |-> locals.conversation_history,
                user_text |-> locals.user_text, partial |-> partial,
                request |-> request]
    /\ locals' = NoLocals
    /\ pending' = NoPending
    /\ function_call' = NoFunctionCall
    /\ rounds' = 0
    /\ executed' = NoExecuted

Return(outcome, r, partial) == ReturnOn(outcome, r, partial, NoFunctionCall)

\* agent.py:240-244: start_chat(history) and send_message(user_text)
SubmitWhileShorter(n) ==
    /\ pc = "idle"
    /\ Len(history) < n
    /\ \E u \in Utterances :
        /\ locals' = [user_text |-> u, conversation_history |-> history,
                      chat |-> to_contents(history)]
        /\ pending' = TextContent("user", u)
    /\ pc' = "awaiting_model"
    /\ rounds' = 0
    /\ last' = NoLast
    /\ UNCHANGED <<history, function_call, stub, executed, execVars, frontVars>>

Submit == SubmitWhileShorter(MaxHistoryLen)

\* the chat after a successful send_message: the message sent and the reply
ChatAfter(reply) == locals.chat \o <<pending, reply>>

\* the reply is final text: agent.py:248 is false, agent.py:266-277
ModelFinalText ==
    /\ pc = "awaiting_model"
    /\ \E a \in ModelTexts :
        Return("final",
               return_final([locals EXCEPT !.chat = ChatAfter(TextContent("model", a))], a),
               NoPartial)
    /\ UNCHANGED <<stub, execVars, frontVars>>

\* the reply is a function call (the loop condition of agent.py:248 is true):
\* agent.py:248-253
RequestTool(c) ==
    /\ locals' = [locals EXCEPT !.chat =
                    ChatAfter([role |-> "model", kind |-> "function_call",
                               text |-> "", name |-> c.tool_name, status |-> "none"])]
    /\ function_call' = c
    /\ pending' = NoPending
    /\ executed' = NoExecuted
    /\ pc' = "tool_requested"
    /\ UNCHANGED <<history, rounds, last, stub, execVars, frontVars>>

ModelFunctionCall ==
    /\ pc = "awaiting_model"
    /\ stub = NoFunctionCall
    /\ rounds < MaxRounds
    /\ \E c \in ModelCalls : RequestTool(c)

\* agent.py:256-262: _execute_tool, then send_message(FunctionResponse)
ExecuteTool ==
    /\ pc = "tool_requested"
    /\ \E env \in Envs :
        LET tc == tool_call_of(function_call)
            r  == _execute_tool(tc.tool_name, tc.args, env)
        IN  /\ child' = ChildAfter(child, CommandOf(tc.args), r)
            /\ registry' = registry_after_lookup(registry, tc.tool_name)
            /\ IF r.raised
               THEN \* an exception leaving _execute_tool reaches agent.py:299
                    /\ Return("error", on_error(locals), NoPartial)
                    /\ UNCHANGED <<stub, call, frontVars>>
               ELSE /\ pending' = function_response(tc.tool_name, r)
                    /\ executed' = tc
                    /\ rounds' = rounds + 1
                    /\ pc' = "awaiting_model"
                    /\ function_call' = NoFunctionCall
                    /\ UNCHANGED <<history, locals, last, stub, call, frontVars>>

\* the reply holds text and then a function call: the loop condition of
\* agent.py:248 looks at parts[0] only and is false; response.text at agent.py:266
\* raises ValueError on the function_call part, which agent.py:299-301 handles.
\* The function call is one the executor would have run.
ModelTextThenFunctionCall ==
    /\ pc = "awaiting_model"
    /\ \E c \in { m \in ModelCalls : m.tool_name \in TOOL_FUNCTION_MAP
                                       /\ Binds(m.tool_name, m.args) } :
        ReturnOn("error", on_error(locals), NoPartial, c)
    /\ UNCHANGED <<stub, execVars, frontVars>>

\* send_message raises BlockedPromptException: agent.py:279-281
ModelBlocked ==
    /\ pc = "awaiting_model"
    /\ Return("blocked", on_blocked(locals), NoPartial)
    /\ UNCHANGED <<stub, execVars, frontVars>>

\* send_message raises StopCandidateException: agent.py:282-298
ModelStopped ==
    /\ pc = "awaiting_model"
    /\ \E partial \in Partials : Return("stopped", on_stop(locals, partial), partial)
    /\ UNCHANGED <<stub, execVars, frontVars>>

\* send_message raises anything else (backend unavailable, ...): agent.py:299-301
ModelError ==
    /\ pc = "awaiting_model"
    /\ Return("error", on_error(locals), NoPartial)
    /\ UNCHANGED <<stub, execVars, frontVars>>

Next ==
    \/ Submit
    \/ ModelFinalText
    \/ ModelFunctionCall
    \/ ModelTextThenFunctionCall
    \/ ExecuteTool
    \/ ModelBlocked
    \/ ModelStopped
    \/ ModelError
    \/ ChildExits

\* the dialogue loop with an arbitrary model backend
Spec == Init /\ [][Next]_vars

(***************************************************************************)
(* process_input with a model stub that answers every message with the     *)
(* same function call.                                                     *)
(***************************************************************************)
\* the function calls of the stubs: an unknown tool, a denied command, arguments
\* that do not bind, an e-mail that is sent or fails
StubCalls ==
    { c \in ModelCalls :
        \/ c.tool_name \in {"delete_files", "send_email"}
        \/ c.tool_name = "run_command" /\ Get(c.args, "safe_mode", TRUE) }

InitStub ==
    /\ child = NoChild
    /\ registry = InitRegistry
    /\ call = NoCall
    /\ InitAgent
    /\ stub \in StubCalls
    /\ InitFront

StubFunctionCall ==
    /\ pc = "awaiting_model"
    /\ stub # NoFunctionCall
    /\ rounds < MaxStubRounds
    /\ RequestTool(stub)

NextStub == Submit \/ StubFunctionCall \/ ExecuteTool

SpecStub == InitStub /\ [][NextStub]_vars

(***************************************************************************)
(* Long conversations: process_input with a model that requests no tool.   *)
(***************************************************************************)
SubmitNext == SubmitWhileShorter(MaxChatHistoryLen)

NextChat == SubmitNext \/ ModelFinalText \/ ModelBlocked \/ ModelStopped \/ ModelError

SpecChat == Init /\ [][NextChat]_vars

(***************************************************************************)
(* A tool invocation step by step: what the tool function waits on         *)
(***************************************************************************)
\* whether the party a tool function waits on ever answers
Peers == {"answers", "silent"}

\* The call a tool function blocks in, and whether that call has a time limit:
\* requests.get(search_url, headers=headers) at tools.py:60 and
\* requests.get(url, headers=headers) at tools.py:110 have none,
\* process.communicate(timeout=30) at tools.py:185 has one, smtplib.SMTP and the
\* Twilio client (tools.py:323, 363) are created without one.
blocking_call(tool_name, params, env) ==
    IF ~params.is_mapping
    THEN [on |-> "none", timeout |-> FALSE]
    ELSE CASE tool_name = "web_search" -> [on |-> "http", timeout |-> FALSE]
           [] tool_name = "fetch_webpage" /\ Get(params.m, "url", "") # "" ->
                [on |-> "http", timeout |-> FALSE]
           [] tool_name = "run_command"
                /\ run_command(Get(params.m, "command", <<>>),
                               Get(params.m, "safe_mode", TRUE), env.proc).spawned ->
                [on |-> "child", timeout |-> TRUE]
           [] tool_name = "send_email" /\ env.body = "ok" ->
                [on |-> "smtp", timeout |-> FALSE]
           [] tool_name = "send_whatsapp" /\ env.body = "ok" ->
                [on |-> "twilio", timeout |-> FALSE]
           [] OTHER -> [on |-> "none", timeout |-> FALSE]

\* the party waited on answers: the child exits, the server responds
Answers(i) ==
    IF i.on = "child" THEN i.env.proc \in {"exit0", "exit_nonzero"} ELSE i.peer = "answers"

ResultOf(i) == execute_tool(i.tool_name, [is_mapping |-> i.is_mapping, m |-> i.args], i.env)

\* ToolManager.execute_tool is called and runs up to its blocking call, or to
\* its return when it has none
InvokeTool ==
    /\ inv.phase = "idle"
    /\ \E c \in ManagerCalls, env \in Envs, peer \in Peers :
        LET b == blocking_call(c.tool_name, [is_mapping |-> c.is_mapping, m |-> c.args], env)
            i == [phase |-> IF b.on = "none" THEN "returned" ELSE "waiting",
                  tool_name |-> c.tool_name, is_mapping |-> c.is_mapping, args |-> c.args,
                  env |-> env, peer |-> IF b.on \in {"none", "child"} THEN "answers" ELSE peer,
                  on |-> b.on, timeout |-> b.timeout, status |-> "absent"]
        IN  inv' = IF b.on = "none" THEN [i EXCEPT !.status = ResultOf(i).status] ELSE i
    /\ UNCHANGED <<execVars, agentVars, voice, loop, ui>>

\* the party waited on answers and the tool function runs to its return
PeerAnswers ==
    /\ inv.phase = "waiting"
    /\ Answers(inv)
    /\ inv' = [inv EXCEPT !.phase = "returned", !.status = ResultOf(inv).status]
    /\ UNCHANGED <<execVars, agentVars, voice, loop, ui>>

\* the time limit of the blocking call runs out: tools.py:194-201
TimeoutExpires ==
    /\ inv.phase = "waiting"
    /\ inv.timeout
    /\ ~Answers(inv)
    /\ inv' = [inv EXCEPT !.phase = "returned", !.status = ResultOf(inv).status]
    /\ UNCHANGED <<execVars, agentVars, voice, loop, ui>>

\* the caller has the result
InvocationDone ==
    /\ inv.phase = "returned"
    /\ inv' = NoInvocation
    /\ UNCHANGED <<execVars, agentVars, voice, loop, ui>>

NextTools == InvokeTool \/ PeerAnswers \/ TimeoutExpires \/ InvocationDone

\* a tool function that can take a step does take it
SpecTools == Init /\ [][NextTools]_vars /\ WF_vars(NextTools)

(***************************************************************************)
(* main(): the interaction loop and its threads (main.py:473-662)          *)
(***************************************************************************)
\* no text: None, or the empty string (both are false in `if user_input:`)
NoText == <<>>

\* main.py:41-42
EXIT_COMMANDS ==
    { <<"g","o","o","d","b","y","e">>,
      <<"e","x","i","t">>,
      <<"q","u","i","t">>,
      <<"s","t","o","p"," ","l","i","s","t","e","n","i","n","g">>,
      <<"p","o","w","e","r"," ","d","o","w","n">>,
      <<"g","o"," ","t","o"," ","b","e","d"," ","m","k","1">> }
STOP_LISTENING_COMMAND == <<"o","v","e","r"," ","a","n","d"," ","o","u","t">>

\* what the speech recogniser may hand back for one listen() call
Heard ==
    { NoText,
      <<"h","i">>,
      <<"q","u","i","t">>,
      <<"g","o"," ","t","o"," ","b","e","d"," ","m","k","1"," ","n","o","w">>,
      <<"o","v","e","r"," ","a","n","d"," ","o","u","t">> }

\* the pygame events of one pass of the loop
Events == {"none", "QUIT", "K_ESCAPE", "K_SPACE", "K_s"}

ThreadKinds == {"speak", "listen", "process"}

\* `cmd in text`: cmd is a substring of text
contains(text, cmd) ==
    \E i \in 0..(Len(text) - Len(cmd)) : SubSeq(text, i + 1, i + Len(cmd)) = cmd

\* main.py:604  any(cmd in user_input.lower() for cmd in EXIT_COMMANDS)
is_exit_command(user_input) == \E cmd \in EXIT_COMMANDS : contains(lower(user_input), cmd)

\* main.py:618  STOP_LISTENING_COMMAND.lower() in user_input.lower()
is_stop_listening(user_input) == contains(lower(user_input), lower(STOP_LISTENING_COMMAND))

\* Thread.is_alive() of a thread variable
is_alive(thread) == thread = "alive"

\* faulty variant: the processing thread is not looked at
all_threads_complete_but_processing(l) ==
    /\ (l.thread.speak = "None" \/ ~is_alive(l.thread.speak))
    /\ (l.thread.listen = "None" \/ ~is_alive(l.thread.listen))

\* main.py:514-518
all_threads_complete(l) ==
    /\ (l.thread.speak = "None" \/ ~is_alive(l.thread.speak))
    /\ (l.thread.listen = "None" \/ ~is_alive(l.thread.listen))
    /\ (l.thread.process = "None" \/ ~is_alive(l.thread.process))

\* x_thread = threading.Thread(...); x_thread.start(): the variable refers to the
\* new thread; the thread it referred to, if still alive, runs on
start_thread(l, kind) ==
    [l EXCEPT !.thread[kind] = "alive",
              !.stray[kind] = @ + (IF is_alive(l.thread[kind]) THEN 1 ELSE 0)]

\* the model follows the loop while no more than MaxStrayThreads threads of a
\* kind run unreferred
WithinBound(l) == \A kind \in ThreadKinds : l.stray[kind] <= MaxStrayThreads

\* a thread of the kind ends: the one the variable refers to, or a stray one
end_thread(l, kind, referred) ==
    IF referred
    THEN [l EXCEPT !.thread[kind] = "dead"]
    ELSE [l EXCEPT !.stray[kind] = @ - 1]

\* voice_io has no class VoiceIO: its listen() keeps the text it recognised for
\* get_last_input(), and keeps what it had when it recognised nothing
VoiceIO_listen(l, text) == IF text = NoText THEN l ELSE [l EXCEPT !.last_input = text]

\* voice_io.py:352-357: the last input is handed out once
get_last_input(l) == [l EXCEPT !.last_input = NoText]

\* main.py:463-466  MockAgent.process_command
process_command(l, command) == [l EXCEPT !.last_response = "response"]

\* the end of one pass: `while running` is tested again, main.py:552
EndOfPass(l) == [l EXCEPT !.at = IF l.running THEN "events" ELSE "stopped"]

\* main.py:554-575 and 577-583: one event is handled, the interface is updated
\* and drawn; the voice part of the pass is skipped in sleep mode
handle_event(l, event) ==
    CASE event \in {"QUIT", "K_ESCAPE"} -> [l EXCEPT !.running = FALSE]
      [] event = "K_SPACE" ->
            IF all_threads_complete(l) THEN [l EXCEPT !.start_listening = TRUE] ELSE l
      [] event = "K_s" ->
            IF all_threads_complete(l)
            THEN start_thread([l EXCEPT !.is_active = ~l.is_active], "speak")
            ELSE l
      [] OTHER -> l

HandleEvents ==
    /\ loop.at = "events"
    /\ \E event \in Events :
        LET l == handle_event(loop, event)
        IN  /\ WithinBound(l)
            /\ loop' = IF l.is_active THEN [l EXCEPT !.at = "listen"] ELSE EndOfPass(l)
    /\ UNCHANGED <<execVars, agentVars, voice, inv, ui>>

\* main.py:585-593
StartListening ==
    /\ loop.at = "listen"
    /\ loop' = [(IF loop.start_listening /\ all_threads_complete(loop)
                 THEN [start_thread(loop, "listen") EXCEPT !.start_listening = FALSE]
                 ELSE loop)
                EXCEPT !.at = "collect"]
    /\ UNCHANGED <<execVars, agentVars, voice, inv, ui>>

\* faulty variant: the command is processed by the loop itself, no thread is started
collect_input_inline(l, joined) ==
    IF l.thread.listen # "None" /\ ~is_alive(l.thread.listen) /\ l.thread.process = "None"
       /\ l.last_input # NoText /\ ~is_exit_command(l.last_input)
       /\ ~is_stop_listening(l.last_input)
    THEN [process_command(get_last_input(l), l.last_input)
            EXCEPT !.thread.process = "dead", !.processing = l.last_input]
    ELSE l

\* main.py:596-633. joined: whether the farewell was spoken within the 5 seconds
\* of speak_thread.join(timeout=5)
collect_input(l, joined) ==
    IF l.thread.listen # "None" /\ ~is_alive(l.thread.listen) /\ l.thread.process = "None"
    THEN LET user_input == l.last_input
             g == get_last_input(l)
         IN  IF user_input = NoText THEN g
             ELSE IF is_exit_command(user_input)
             THEN [(IF joined
                    THEN end_thread(start_thread(g, "speak"), "speak", TRUE)
                    ELSE start_thread(g, "speak"))
                   EXCEPT !.running = FALSE]
             ELSE IF is_stop_listening(user_input)
             THEN [start_thread(g, "speak") EXCEPT !.is_active = FALSE]
             ELSE [start_thread(g, "process") EXCEPT !.processing = user_input]
    ELSE l

CollectInput ==
    /\ loop.at = "collect"
    /\ \E joined \in BOOLEAN :
        /\ WithinBound(collect_input(loop, joined))
        /\ loop' = [collect_input(loop, joined) EXCEPT !.at = "respond"]
    /\ UNCHANGED <<execVars, agentVars, voice, inv, ui>>

\* main.py:636-659: `not speak_thread` asks for the variable to be None
speak_response(l) ==
    IF l.thread.process # "None" /\ ~is_alive(l.thread.process) /\ l.thread.speak = "None"
    THEN [start_thread(l, "speak") EXCEPT !.thread.process = "None",
                                           !.start_listening = TRUE]
    ELSE l

SpeakResponse ==
    /\ loop.at = "respond"
    /\ loop' = EndOfPass(speak_response(loop))
    /\ UNCHANGED <<execVars, agentVars, voice, inv, ui>>

\* one of the threads of the kind, alive
SomeAlive(kind) ==
    { referred \in BOOLEAN :
        IF referred THEN is_alive(loop.thread[kind]) ELSE loop.stray[kind] > 0 }

\* main.py:526-531  listen_in_background ends
ListenThreadEnds ==
    /\ loop.at # "stopped"
    /\ \E referred \in SomeAlive("listen"), text \in Heard :
        loop' = end_thread(VoiceIO_listen(loop, text), "listen", referred)
    /\ UNCHANGED <<execVars, agentVars, voice, inv, ui>>

\* main.py:533-538  process_in_background ends
ProcessThreadEnds ==
    /\ loop.at # "stopped"
    /\ \E referred \in SomeAlive("process") :
        loop' = end_thread(process_command(loop, loop.processing), "process", referred)
    /\ UNCHANGED <<execVars, agentVars, voice, inv, ui>>

\* main.py:520-524  speak_in_background ends
SpeakThreadEnds ==
    /\ loop.at # "stopped"
    /\ \E referred \in SomeAlive("speak") :
        loop' = end_thread(loop, "speak", referred)
    /\ UNCHANGED <<execVars, agentVars, voice, inv, ui>>

NextMain ==
    \/ HandleEvents
    \/ StartListening
    \/ CollectInput
    \/ SpeakResponse
    \/ ListenThreadEnds
    \/ ProcessThreadEnds
    \/ SpeakThreadEnds

SpecMain == Init /\ [][NextMain]_vars

\* The loop of main.py:552-662 runs pass after pass (clock.tick(60) returns), and
\* every started thread runs to its end: speak() and listen() return, and
\* MockAgent.process_command returns at once.
SpecMainFair ==
    /\ Init
    /\ [][NextMain]_vars
    /\ WF_vars(HandleEvents)
    /\ WF_vars(StartListening)
    /\ WF_vars(CollectInput)
    /\ WF_vars(SpeakResponse)
    /\ WF_vars(ListenThreadEnds)
    /\ WF_vars(ProcessThreadEnds)
    /\ WF_vars(SpeakThreadEnds)

(***************************************************************************)
(* JarvisUI (ui.py): conversation, buttons and their callbacks             *)
(***************************************************************************)
\* ui.py:99-128: the `action` of the four buttons
ButtonActions == {"activate", "deactivate", "reset", "sysinfo"}

\* where a click lands: on one of the buttons (they do not overlap), or on none
ClickTargets == ButtonActions \cup {"none"}

\* ui.py:595-606: the roles of the messages
MessageRoles == {"user", "assistant"}

\* ui.py:204-207: the callback of a button is called when the attribute
\* on_<action>_click exists and is callable; set_button_callbacks, which no code
\* of the repository calls, stores None unless it is given a function
callback_called(u, action) == u.callbacks \notin {"unset", "None"}

\* ui.py:197-207: the button is flagged and its callback, if any, is called.
\* JarvisUI has no code of its own that clears self.conversation.
_handle_click(u, target) ==
    IF target \in ButtonActions
    THEN [u EXCEPT !.active = @ \cup {target}, !.clicked = target,
                   !.called = callback_called(u, target)]
    ELSE [u EXCEPT !.clicked = "none", !.called = FALSE]

\* ui.py:595-606
add_conversation_message(u, role, content) ==
    [u EXCEPT !.conversation = Append(@, [role |-> role, content |-> content]),
              !.clicked = "none", !.called = FALSE]

AddConversationMessage ==
    /\ Len(ui.conversation) < MaxMessages
    /\ \E role \in MessageRoles : ui' = add_conversation_message(ui, role, "m")
    /\ UNCHANGED <<execVars, agentVars, voice, inv, loop>>

\* ui.py:171-173: a MOUSEBUTTONUP event of the UI loop
HandleClick ==
    /\ \E target \in ClickTargets : ui' = _handle_click(ui, target)
    /\ UNCHANGED <<execVars, agentVars, voice, inv, loop>>

\* ui.py:211-217, called with its defaults
SetButtonCallbacks ==
    /\ ui' = [ui EXCEPT !.callbacks = "None"]
    /\ UNCHANGED <<execVars, agentVars, voice, inv, loop>>

\* ui.py:480-493: the buttons are drawn and their active flag is reset
DrawButtons ==
    /\ ui' = [ui EXCEPT !.active = {}]
    /\ UNCHANGED <<execVars, agentVars, voice, inv, loop>>

NextUI == AddConversationMessage \/ HandleClick \/ SetButtonCallbacks \/ DrawButtons

SpecUI == Init /\ [][NextUI]_vars

(***************************************************************************)
(* voice_io.py: steps of the callers and of the listening threads          *)
(***************************************************************************)
StartCheck(c) ==
    /\ voice.caller[c].pc = "idle"
    /\ thread_is_alive(voice) \/ voice.created < MaxThreads
    /\ voice' = start_check(voice, c)
    /\ UNCHANGED <<execVars, agentVars, inv, loop, ui>>

StartFlag(c) ==
    /\ voice.caller[c].pc = "start_flag"
    /\ voice' = start_flag(voice, c)
    /\ UNCHANGED <<execVars, agentVars, inv, loop, ui>>

StartAssign(c) ==
    /\ voice.caller[c].pc = "start_assign"
    /\ voice.created < MaxThreads
    /\ voice' = start_assign(voice, c)
    /\ UNCHANGED <<execVars, agentVars, inv, loop, ui>>

StartDaemon(c) ==
    /\ voice.caller[c].pc = "start_daemon"
    /\ voice' = start_daemon(voice, c)
    /\ UNCHANGED <<execVars, agentVars, inv, loop, ui>>

StartStart(c) ==
    /\ voice.caller[c].pc = "start_start"
    /\ voice' = start_start(voice, c)
    /\ UNCHANGED <<execVars, agentVars, inv, loop, ui>>

StopListening(c) ==
    /\ voice.caller[c].pc = "idle"
    /\ voice' = stop_listening_thread(voice, c)
    /\ UNCHANGED <<execVars, agentVars, inv, loop, ui>>

GetRead(c) ==
    /\ voice.caller[c].pc = "idle"
    /\ voice' = get_read(voice, c)
    /\ UNCHANGED <<execVars, agentVars, inv, loop, ui>>

GetClear(c) ==
    /\ voice.caller[c].pc = "get_clear"
    /\ voice' = get_clear(voice, c)
    /\ UNCHANGED <<execVars, agentVars, inv, loop, ui>>

ThreadBegins ==
    /\ \E t \in 1..MaxThreads :
        /\ voice.threads[t] = "starting"
        /\ voice' = thread_begins(voice, t)
    /\ UNCHANGED <<execVars, agentVars, inv, loop, ui>>

ThreadTests ==
    /\ \E t \in 1..MaxThreads :
        /\ voice.threads[t] = "looping"
        /\ voice' = thread_tests(voice, t)
    /\ UNCHANGED <<execVars, agentVars, inv, loop, ui>>

ThreadHears ==
    /\ \E t \in 1..MaxThreads, outcome \in ListenOutcomes :
        /\ voice.threads[t] = "listening"
        /\ outcome \in {"utterance", "stop_phrase", "shutdown_phrase"}
              => voice.heard < MaxUtterances
        /\ voice' = thread_hears(voice, t, outcome)
    /\ UNCHANGED <<execVars, agentVars, inv, loop, ui>>

\* any number of threads call the functions of voice_io.py
NextVoice ==
    \/ \E c \in Callers :
          \/ StartCheck(c)
          \/ StartFlag(c)
          \/ StartAssign(c)
          \/ StartDaemon(c)
          \/ StartStart(c)
          \/ StopListening(c)
          \/ GetRead(c)
          \/ GetClear(c)
    \/ ThreadBegins
    \/ ThreadTests
    \/ ThreadHears

SpecVoice == Init /\ [][NextVoice]_vars

\* one thread calls them, one call after the other
NextVoiceOneCaller ==
    \/ StartCheck(1)
    \/ StartFlag(1)
    \/ StartAssign(1)
    \/ StartDaemon(1)
    \/ StartStart(1)
    \/ StopListening(1)
    \/ GetRead(1)
    \/ GetClear(1)
    \/ ThreadBegins
    \/ ThreadTests
    \/ ThreadHears

SpecVoiceOneCaller == Init /\ [][NextVoiceOneCaller]_vars

(***************************************************************************)
(* Properties of the tool executors (SpecExec)                             *)
(***************************************************************************)
\* the handler of the call was entered: its arguments were readable and bound
HandlerEntered ==
    IF call.executor = "agent"
    THEN call.tool_name \in TOOL_FUNCTION_MAP /\ Binds(call.tool_name, call.args)
    ELSE call.executor = "manager" /\ call.is_mapping

\* the body of the tool raised an exception into the executor
BodyRaises ==
    /\ call.executor = "agent"
    /\ call.tool_name \in {"browse_web", "check_system_status"}
    /\ Binds(call.tool_name, call.args)
    /\ call.env.body \in {"raise_type_error", "raise_exception"}

\* the executor's own code raised: params.get on a value that is no mapping
ParamsUnreadable ==
    /\ call.executor = "manager"
    /\ call.tool_name \in ReadsParams
    /\ ~call.is_mapping

\* the returned value describes an error
DescribesError ==
    IF call.executor = "agent"
    THEN call.kind \in {"not_available", "invalid_arguments", "failed_to_execute"}
    ELSE call.status = "error"

\* C1: whatever the tool name and the arguments, and also when the tool body
\* raises, _execute_tool and ToolManager.execute_tool return a value (one that
\* describes the error when there was one) and let no exception reach the caller.
C1_ExecutorNeverRaises ==
    call.executor # "none" =>
        /\ ~call.raised
        /\ (BodyRaises \/ ParamsUnreadable \/ call.fault # "none") => DescribesError

C1_Witness_BodyRaised ==
    /\ BodyRaises
    /\ call.env.body = "raise_exception"
    /\ ~call.raised
    /\ call.kind = "failed_to_execute"

\* run_command has been called in safe mode with a command that has a first token
SafeModeRunCommand ==
    /\ call.executor # "none"
    /\ call.tool_name = "run_command"
    /\ HandlerEntered
    /\ Get(call.args, "safe_mode", TRUE)
    /\ split(CommandOf(call.args)) # <<>>

FirstToken == split(CommandOf(call.args))[1]

\* C2 as stated: in safe mode every command whose first token is not in the
\* allow-list is answered with status=denied and starts no child process.
C2_FirstTokenNotListedIsDenied ==
    (SafeModeRunCommand /\ FirstToken \notin safe_commands) =>
        call.status = "denied" /\ ~call.spawned

\* C2 amended: in safe mode every command whose first token, lower-cased, is not
\* in the allow-list is answered with status=denied and starts no child process.
C2_LoweredFirstTokenNotListedIsDenied ==
    (SafeModeRunCommand /\ lower(FirstToken) \notin safe_commands) =>
        call.status = "denied" /\ ~call.spawned

C2_Witness_RmDenied ==
    /\ SafeModeRunCommand
    /\ CommandOf(call.args) = <<"r","m"," ","-","r","f"," ","/">>
    /\ call.status = "denied"
    /\ ~call.spawned
    /\ child = NoChild

\* C3: whatever arguments the callers of the tool executors supply, every child
\* process that run_command has started runs only programs of the allow-list
\* (names compared as run_command compares them, without regard to case).
C3_OnlyListedProgramsRun ==
    child.started =>
        \A program \in ShellPrograms(child.command) : lower(program) \in safe_commands

\* C4: when run_command has returned status=timeout, its child process is not
\* running any more.
C4_TimeoutLeavesNoChild ==
    (call.executor # "none" /\ call.tool_name = "run_command" /\ call.status = "timeout")
        => ~child.alive

(***************************************************************************)
(* Properties of process_input                                             *)
(***************************************************************************)
\* The loop bound of the design, "a maximum round-trip count (implementation-
\* chosen constant, e.g. 8)"; agent.py has no such constant.
MaxRoundTrips == 8

\* config.py:137
MAX_CONVERSATION_HISTORY == 10

\* C5: with a model that answers every message with a tool call, process_input
\* executes no more tool calls than the maximum number of round-trips.
C5_ToolCallsWithinLoopBound == rounds <= MaxRoundTrips

\* process_input has returned (or raised) after a failure of the model backend
Failed ==
    /\ pc \in {"idle", "crashed"}
    /\ last.outcome \in {"blocked", "stopped", "error"}

FixedMessages == {SafetyMsg, InterruptedMsg, InternalErrorMsg}

\* the turns the latest call added to the history it was given
NewTurns == SubSeq(history, Len(last.input) + 1, Len(history))

\* the turns among them that were written for a tool round-trip: the serialized
\* function call (role model) and function response (role user) have no text
ToolTurns(role) ==
    Cardinality({ i \in 1..Len(NewTurns) : NewTurns[i].text = "" /\ NewTurns[i].role = role })

ExtendsInput ==
    /\ Len(history) >= Len(last.input)
    /\ SubSeq(history, 1, Len(last.input)) = last.input

\* the tool turns of the utterance are all in the history, or none of them is
ToolTurnsAllOrNone ==
    /\ ExtendsInput
    /\ \/ ToolTurns("model") = 0 /\ ToolTurns("user") = 0
       \/ ToolTurns("model") = last.rounds /\ ToolTurns("user") = last.rounds

PartialRecovered ==
    /\ last.outcome = "stopped"
    /\ last.partial.readable
    /\ last.partial.text # ""

\* C6 as stated: after a model-backend failure at any point of process_input, the
\* call has not raised, has returned one of the fixed messages, and the tool
\* turns of the utterance are all in the returned history or all absent.
C6_FailureGivesFixedMessage ==
    Failed =>
        /\ ~last.raised
        /\ last.text \in FixedMessages
        /\ ToolTurnsAllOrNone

\* C6 amended: after a model-backend failure at any point of process_input, the
\* call has not raised, has returned one of the fixed messages or, for a stopped
\* reply with a non-empty partial answer, that partial answer, and the tool turns
\* of the utterance are all in the returned history or all absent.
C6_FailureGivesFixedMessageOrPartial ==
    Failed =>
        /\ ~last.raised
        /\ \/ last.text \in FixedMessages
           \/ PartialRecovered /\ last.text = last.partial.text
        /\ ToolTurnsAllOrNone

C6_Witness_FailureAfterToolRound ==
    /\ Failed
    /\ last.outcome = "error"
    /\ last.rounds >= 1
    /\ last.text = InternalErrorMsg
    /\ history = last.input

\* C7: after a content-policy block, process_input has returned the safety
\* message and the history holds the rejected user turn and no assistant turn.
C7_BlockedKeepsUserTurn ==
    (pc = "idle" /\ last.outcome = "blocked") =>
        /\ last.text = SafetyMsg
        /\ history = last.input \o <<[role |-> "user", text |-> last.user_text]>>

\* C8: after a stopped reply, process_input has returned the partial text and the
\* input history followed by the user turn and a model turn with the partial
\* text, if that text is readable and non-empty; otherwise it has returned the
\* interruption message and the input history.
C8_PartialResponseRecovery ==
    (pc = "idle" /\ last.outcome = "stopped") =>
        IF last.partial.readable /\ last.partial.text # ""
        THEN /\ last.text = last.partial.text
             /\ history = last.input
                            \o << [role |-> "user", text |-> last.user_text],
                                  [role |-> "model", text |-> last.partial.text] >>
        ELSE /\ last.text = InterruptedMsg
             /\ history = last.input

C8_Witness_PartialAfterToolRound ==
    /\ pc = "idle"
    /\ PartialRecovered
    /\ last.rounds >= 1
    /\ last.input # <<>>
    /\ Len(history) = Len(last.input) + 2

\* C9: when the model answers an utterance with final text and no tool call, the
\* returned history is the input history followed by one user turn with the
\* utterance and then one model turn with the answer.
C9_NoToolRoundTrip ==
    (pc = "idle" /\ last.outcome = "final" /\ last.rounds = 0) =>
        /\ last.text \in ModelTexts
        /\ history = last.input
                       \o << [role |-> "user", text |-> last.user_text],
                             [role |-> "model", text |-> last.text] >>

C9_Witness_AfterEarlierToolTurns ==
    /\ pc = "idle"
    /\ last.outcome = "final"
    /\ last.rounds = 0
    /\ \E i \in 1..Len(last.input) : last.input[i].text = ""
    /\ Len(history) = Len(last.input) + 2

\* C10: after every submission of a conversation that feeds each returned history
\* into the next call, the history is no longer than MAX_CONVERSATION_HISTORY.
C10_HistoryWithinMaximum ==
    pc = "idle" => Len(history) <= MAX_CONVERSATION_HISTORY

(***************************************************************************)
(* Properties of the tool executors, continued (SpecExec)                  *)
(***************************************************************************)
\* the tool names an executor has a handler for
Registered == IF call.executor = "agent" THEN TOOL_FUNCTION_MAP ELSE ManagerTools

\* the name of the call is no registered tool of the executor that was called
UnregisteredTool ==
    /\ call.executor # "none"
    /\ call.tool_name \notin Registered

\* C11: for every tool name that is not registered, the executor returns an
\* error result whose text names that tool, calls no tool handler, has no
\* outside effect and raises nothing to its caller.
C11_UnknownToolIsReported ==
    UnregisteredTool =>
        /\ ~call.raised
        /\ DescribesError
        /\ call.named = call.tool_name
        /\ call.handler = "none"
        /\ call.effect = "none" /\ ~call.spawned

C11_Witness_UnknownToolReported ==
    /\ UnregisteredTool
    /\ call.executor = "agent"
    /\ call.tool_name = "delete_files"
    /\ call.kind = "not_available"
    /\ call.named = "delete_files"

\* the parameters the called tool function cannot do without
RequiredOf ==
    IF call.executor = "agent"
    THEN HandlerParams(call.tool_name).required
    ELSE ManagerRequired(call.tool_name)

\* a registered tool has been called with a mapping that lacks a required parameter
LacksRequired ==
    /\ call.executor # "none"
    /\ call.tool_name \in Registered
    /\ call.is_mapping
    /\ ~(RequiredOf \subseteq DOMAIN call.args)

\* C12: for every registered tool and every arguments mapping that lacks a
\* required parameter, the executor returns an error result and the effect of
\* the tool (a started process, a sent message, an HTTP request) does not occur.
C12_MissingParameterIsRefused ==
    LacksRequired =>
        /\ ~call.raised
        /\ DescribesError
        /\ call.effect = "none" /\ ~call.spawned

\* the values the "status" key of an executor result may have
ResultStatuses == {"success", "denied", "timeout", "error"}

\* C16: every result an executor returns carries a status, one of success,
\* denied, timeout and error.
C16_ResultCarriesStatus ==
    call.executor # "none" => call.envelope \in ResultStatuses

(***************************************************************************)
(* Properties of the tool loop of process_input (Spec)                     *)
(***************************************************************************)
\* the texts an executor result can have
ResultTexts == {"not_available", "invalid_arguments", "failed_to_execute", "str_result"}

\* a function response that reports a failed tool invocation
FailedResponse(turn) ==
    /\ turn.kind = "function_response"
    /\ \/ turn.text \in {"not_available", "invalid_arguments", "failed_to_execute"}
       \/ turn.text = "str_result" /\ turn.status \in {"denied", "timeout", "error"}

\* C13: a tool invocation inside process_input, failed ones included (unknown
\* tool, invalid arguments, denied, timeout, runtime error), does not end the
\* utterance: the text of its result is sent to the model as the response of
\* that tool and process_input waits for the model again, nothing returned yet.
C13_ToolFailureGoesBackToModel ==
    [][(pc = "tool_requested" /\ pc' # pc) =>
         /\ pc' = "awaiting_model"
         /\ pending'.kind = "function_response"
         /\ pending'.name = function_call.tool_name
         /\ pending'.text \in ResultTexts
         /\ last' = NoLast
         /\ history' = history]_vars

C13_Witness_FailuresSentToModel ==
    /\ pc = "awaiting_model"
    /\ FailedResponse(pending)
    /\ pending.status = "timeout"
    /\ \E i \in 1..Len(locals.chat) :
         FailedResponse(locals.chat[i]) /\ locals.chat[i].text = "not_available"

\* C18: whenever the reply of the model holds a function call, process_input
\* invokes _execute_tool with exactly that name and those arguments and waits
\* for the model again; it never returns on a reply that holds a function call.
C18_ToolCallIsExecutedBeforeReturn ==
    [][/\ (pc = "tool_requested" /\ pc' # pc) =>
             /\ pc' = "awaiting_model"
             /\ executed' = [tool_name |-> function_call.tool_name,
                             args |-> function_call.args]
       /\ last'.request = NoFunctionCall]_vars

\* the turns of the running call's chat that hold a part of the given kind,
\* the message being sent included
SentAndReceived == locals.chat \o (IF pc = "awaiting_model" THEN <<pending>> ELSE <<>>)

PartsOf(kind) == SelectSeq(SentAndReceived, LAMBDA turn : turn.kind = kind)

\* C19: tool calls are handled one at a time. While process_input runs, every
\* function call of the model but the one just requested has been executed and
\* answered, in the order requested, before the next reply is read, one
\* execution per reply; and when process_input returns, every reply that held a
\* function call has had its execution.
C19_OneExecutionPerToolCallReply ==
    /\ pc \in {"awaiting_model", "tool_requested"} =>
          /\ Len(PartsOf("function_call")) = rounds + (IF pc = "tool_requested" THEN 1 ELSE 0)
          /\ Len(PartsOf("function_response")) = rounds
          /\ \A i \in 1..rounds :
                PartsOf("function_response")[i].name = PartsOf("function_call")[i].name
          /\ \A i \in 1..Len(SentAndReceived) :
                SentAndReceived[i].kind = "function_response" =>
                    i > 1 /\ SentAndReceived[i-1].kind = "function_call"
    /\ pc = "idle" => last.request = NoFunctionCall

\* C20: when an utterance that took k >= 1 tool round-trips ends with a final
\* answer, the returned history holds, between the new user turn and the final
\* model turn, k tool turns in the order of execution, each with the text of
\* the corresponding tool result.
C20_ToolTurnsCarryResults ==
    [][(pc = "awaiting_model" /\ rounds >= 1 /\ pc' = "idle" /\ last'.outcome = "final") =>
         LET results == PartsOf("function_response")
             first   == Len(locals.conversation_history) + 2
             between == SubSeq(history', first, Len(history') - 1)
         IN  /\ Len(between) = rounds
             /\ \A i \in 1..rounds : between[i].text = results[i].text]_vars

(***************************************************************************)
(* Properties of a tool invocation (SpecTools)                             *)
(***************************************************************************)
\* C15: every tool invocation eventually returns, by completing or by running
\* into its own time limit; none waits forever.
C15_EveryInvocationReturns ==
    (inv.phase = "waiting") ~> (inv.phase = "returned")

(***************************************************************************)
(* Properties of the interaction loop (SpecMain)                           *)
(***************************************************************************)
\* the threads of a kind that are alive
AliveCount(kind) == loop.stray[kind] + (IF is_alive(loop.thread[kind]) THEN 1 ELSE 0)

\* C14: at any time at most one processing thread is alive (an utterance is
\* handed to the agent by starting one), and while one is alive no listening
\* thread is capturing a new utterance.
C14_OneProcessingThread ==
    /\ AliveCount("process") <= 1
    /\ AliveCount("process") = 1 => AliveCount("listen") = 0

C14_Witness_LoopRunsWhileProcessing ==
    /\ AliveCount("process") = 1
    /\ loop.processing # NoText
    /\ loop.at = "listen"
    /\ loop.is_active
    /\ ~is_alive(loop.thread.speak)

(***************************************************************************)
(* Properties of JarvisUI (SpecUI)                                         *)
(***************************************************************************)
\* C17: after the user's reset command (a click on the "Reset Conv" button) the
\* conversation history is empty.
C17_ResetEmptiesHistory ==
    ui.clicked = "reset" => ui.conversation = <<>>

(***************************************************************************)
(* run_command with a blank command (SpecExec)                             *)
(***************************************************************************)
\* run_command has been called with a command made of whitespace only (or empty)
BlankCommandRun ==
    /\ call.executor # "none"
    /\ call.tool_name = "run_command"
    /\ HandlerEntered
    /\ \A i \in 1..Len(CommandOf(call.args)) : CommandOf(call.args)[i] \in Whitespace

\* C30: run_command called with an empty or whitespace-only command, in safe
\* mode or not, returns a result with status=error and starts no child process.
C30_BlankCommandIsAnError ==
    BlankCommandRun => call.status = "error" /\ ~call.spawned

C30_Witness_BlankCommandOutsideSafeMode ==
    /\ BlankCommandRun
    /\ call.executor = "manager"
    /\ CommandOf(call.args) = <<" ">>
    /\ ~Get(call.args, "safe_mode", TRUE)
    /\ call.status = "error"
    /\ ~call.spawned

(***************************************************************************)
(* The tool registry of agent.py (Spec)                                    *)
(***************************************************************************)
\* the names declared to the model
DeclaredNames == { registry.declared[i] : i \in DOMAIN registry.declared }

CalledAsDeclared ==
    /\ call.executor = "agent"
    /\ call.tool_name \in DeclaredNames
    /\ DOMAIN call.args = DeclaredRequired(call.tool_name)

\* C25: for every tool declared to the model, an invocation whose arguments are
\* exactly the parameters the declaration lists as required is not answered with
\* an invalid-arguments or unknown-tool error.
C25_DeclaredCallIsAccepted ==
    CalledAsDeclared => call.kind \notin {"invalid_arguments", "not_available"}

(***************************************************************************)
(* The history across process_input calls (Spec)                           *)
(***************************************************************************)
\* C22: across any sequence of process_input calls in which each returned
\* history is passed to the next call, the returned history has the input
\* history as a prefix, whatever the branch the call returned on (normal reply,
\* tool round-trips, partial stop, blocked, error).
C22_ReturnedHistoryKeepsInputAsPrefix ==
    (last.outcome # "none" /\ ~last.raised) =>
        /\ Len(last.input) <= Len(history)
        /\ \A i \in 1..Len(last.input) : history[i] = last.input[i]

\* a later call, given recorded turns, has returned after a tool round-trip
C22_Witness_LaterCallWithToolRoundTrip ==
    /\ pc = "idle"
    /\ last.outcome = "final"
    /\ last.rounds > 0
    /\ Len(last.input) >= 2
    /\ Len(history) > Len(last.input)
    /\ SubSeq(history, 1, Len(last.input)) = last.input

(***************************************************************************)
(* The main loop after the processing thread has finished (SpecMainFair)   *)
(***************************************************************************)
\* the processing thread the loop refers to has finished, the loop runs and the
\* system is active
ProcessingFinished ==
    /\ loop.thread.process = "dead"
    /\ loop.running
    /\ loop.is_active

\* C21: whenever a processing thread has finished while the system is active,
\* the loop eventually clears the processing thread (having taken the response,
\* started to speak it and re-enabled listening), unless it is stopped or put
\* to sleep first.
C21_FinishedProcessingIsTakenUp ==
    ProcessingFinished ~>
        (loop.thread.process = "None" \/ ~loop.running \/ ~loop.is_active)

(***************************************************************************)
(* Who processes an utterance (SpecMain)                                    *)
(***************************************************************************)
\* one step of the thread that runs the event/draw loop
LoopStep == HandleEvents \/ StartListening \/ CollectInput \/ SpeakResponse

\* a processing thread ends in this step
ProcessingThreadEnded ==
    \/ is_alive(loop.thread.process) /\ loop'.thread.process = "dead"
    \/ loop'.stray.process < loop.stray.process

\* C23: the agent's processing of an utterance is executed only by a background
\* processing thread, never by the thread that runs the event/draw loop, and
\* while a processing thread is alive the loop can take its next step: it does
\* not wait for the thread.
C23_ProcessingOnlyInBackground ==
    /\ []((is_alive(loop.thread.process) /\ loop.at # "stopped") => ENABLED LoopStep)
    /\ [][loop'.last_response # loop.last_response =>
             (loop'.at = loop.at /\ ProcessingThreadEnded)]_vars

\* the loop has gone on to its next pass while the processing thread is alive
C23_Witness_LoopPassesWhileProcessing ==
    /\ is_alive(loop.thread.process)
    /\ loop.processing # NoText
    /\ loop.last_response = "None"
    /\ loop.at = "collect"

(***************************************************************************)
(* Control phrases in the main loop (SpecMainFair)                         *)
(***************************************************************************)
\* the recogniser has stored an utterance that contains an exit command, while
\* the loop runs and the system is active
ExitCommandHeard ==
    /\ is_exit_command(loop.last_input)
    /\ loop.running
    /\ loop.is_active

\* the same for the stop-listening phrase, without an exit command
StopListeningHeard ==
    /\ is_stop_listening(loop.last_input)
    /\ ~is_exit_command(loop.last_input)
    /\ loop.running
    /\ loop.is_active

\* C29: when a recognized utterance contains an exit command the loop stops,
\* when it contains the stop-listening phrase and no exit command the interface
\* enters sleep mode, and in neither case is the agent invoked for the utterance
\* (the utterance being replaced by a later one, the window being closed or the
\* system being put to sleep by a key are not counted against the loop).
C29_ControlPhrasesAreObeyed ==
    /\ [](~is_exit_command(loop.processing) /\ ~is_stop_listening(loop.processing))
    /\ ExitCommandHeard ~>
           (~loop.running \/ ~loop.is_active \/ ~is_exit_command(loop.last_input))
    /\ StopListeningHeard ~>
           (~loop.is_active \/ ~loop.running \/ ~is_stop_listening(loop.last_input))

(***************************************************************************)
(* Properties of voice_io.py (SpecVoice, SpecVoiceOneCaller)               *)
(***************************************************************************)
\* a caller's get_last_input clears last_input in this step
ClearedBy(c) ==
    /\ voice.caller[c].pc = "get_clear"
    /\ voice'.caller[c].pc = "idle"

\* C26: under any interleaving of the listening thread and callers of
\* get_last_input, get_last_input returns each stored utterance at most once
\* and never clears an utterance it did not return.
C26_UtteranceReturnedOnceAndNotDropped ==
    /\ [](\A u \in 1..MaxUtterances : voice.returned[u] <= 1)
    /\ [][(voice.last_input # None /\ voice'.last_input = None) =>
             \E c \in Callers : ClearedBy(c) /\ voice.caller[c].result = voice.last_input]_vars

\* listening threads that are alive
AliveThreads == { t \in 1..MaxThreads : voice.threads[t] \in AliveStates }

\* C27: under any interleaving of concurrent callers of start_listening_thread
\* and stop_listening_thread, at most one continuous listening thread is alive
\* at any time.
C27_AtMostOneListeningThread == Cardinality(AliveThreads) <= 1

\* a call of start_listening_thread returns to the caller in this step
StartReturns(c) ==
    \/ /\ voice.caller[c].pc = "idle"
       /\ voice' = start_check(voice, c)
       /\ voice'.caller[c].pc = "idle"
    \/ /\ voice.caller[c].pc = "start_start"
       /\ voice' = start_start(voice, c)
       /\ ~voice'.caller[c].raised

\* C28: after any call of start_listening_thread returns, including one issued
\* right after stop_listening_thread while the previous listening thread has not
\* yet exited, continuous listening is on: is_listening_active is True and a
\* listening thread is alive.
C28_ListeningIsOnAfterStart ==
    [][(\E c \in Callers : StartReturns(c)) =>
          (voice'.is_listening_active /\ thread_is_alive(voice'))]_vars

====
